---- MODULE Spec2Model ----
(***************************************************************************)
(* EcoLink backend: the file-impact analysis task (files/tasks.py) over    *)
(* the FileAsset / Recommendation tables (files/models.py).                *)
(*                                                                         *)
(* Every ORM call of analyze_file is its own database transaction (the     *)
(* task opens no transaction.atomic block), so each call is one step and   *)
(* the steps of concurrently running tasks interleave.                     *)
(*                                                                         *)
(* Python floats are modelled as exact rationals: a quantity measured in   *)
(* GiB-fractions is the record [w, f] standing for w + f / 2^30 with       *)
(* 0 <= f < 2^30.  All sizes are in bytes.                                 *)
(***************************************************************************)
EXTENDS Integers, Sequences, FiniteSets, TLC

VARIABLES
    kwhPerGb,     \* settings.REGION_KWH_PER_GB
    co2PerKwh,    \* settings.REGION_CO2_G_PER_KWH
    files,        \* table files_fileasset, in primary-key order (id = index)
    recs,         \* table files_recommendation, in primary-key order
    tasks         \* the analyze_file invocations, one record of locals each

vars == <<kwhPerGb, co2PerKwh, files, recs, tasks>>

----------------------------------------------------------------------------
(* Bounds of the model *)

\* number of analyze_file invocations
NumTasks == 3

Tasks == 1..NumTasks

\* number of invocations the worker pool runs at the same time
Workers == 2

----------------------------------------------------------------------------
(* Units *)

KiB == 1024
MiB == 1024 * 1024
GiB == 1024 * 1024 * 1024
\* 2^15: half of the 30 fractional bits; GiB = Half * Half
Half == 32 * KiB

\* NULL foreign key / id of no row (primary keys start at 1)
NULL == 0

Min(a, b) == IF a <= b THEN a ELSE b

(* Exact arithmetic on w + f/GiB *)
FxOfBytes(n) == [w |-> n \div GiB, f |-> n % GiB]

\* x * n for an integer n >= 0 (long multiplication on the two halves of f)
FxMul(x, n) ==
    LET fh  == x.f \div Half
        fl  == x.f % Half
        lo  == fl * n
        mid == fh * n + (lo \div Half)
    IN  [w |-> x.w * n + (mid \div Half),
         f |-> (mid % Half) * Half + (lo % Half)]

FxAdd(x, y) ==
    LET s == x.f + y.f
    IN  [w |-> x.w + y.w + (s \div GiB), f |-> s % GiB]

\* int(x) of a non-negative x
FxInt(x) == x.w

FxZero == [w |-> 0, f |-> 0]

FxLeq(x, y) == x.w < y.w \/ (x.w = y.w /\ x.f <= y.f)

----------------------------------------------------------------------------
(* Collaborators outside the task: users, the object store, libmagic *)

\* ids of the rows of auth_user
Users == {1, 2}
\* a user id with no row: User.objects.get raises User.DoesNotExist
GhostUser == 3

\* byte contents an object may hold
Contents == {"clip", "note"}
\* the same with an audio object
MediaContents == Contents \cup {"song"}

\* hashlib.sha256(content).hexdigest(): one digest per content
Sha256(content) ==
    CASE content = "clip" -> "9f2c"
      [] content = "note" -> "41d7"
      [] content = "song" -> "c08b"

\* magic.from_buffer(content, mime=True); a MIME type is <<type, subtype>>
MimeFromBuffer(content) ==
    CASE content = "clip" -> <<"video", "mp4">>
      [] content = "note" -> <<"text", "plain">>
      [] content = "song" -> <<"audio", "mpeg">>

\* `t in mime_type` for t one of the type words
InMime(word, mime_type) == \E i \in 1..Len(mime_type) : mime_type[i] = word

\* A text that the code joins or splits at "/" is the sequence of its
\* segments; a segment is the sequence of its parts.

\* settings.AWS_S3_ENDPOINT_URL, e.g. http://minio:9000
ENDPOINT_URL == <<(<<"http:">>), (<<>>), (<<"minio:9000">>)>>

\* settings.AWS_STORAGE_BUCKET_NAME
BUCKET_NAME == "ecolink-files"

\* uuid.uuid4().hex of the upload request that precedes commit number t
UuidHex(t) == <<"3fa1", "b72c", "09de", "e514", "7a60">>[t]

UserSegment(user_id) == <<"1", "2", "3">>[user_id]

\* request_upload_url: f"uploads/{request.user.id}/{uuid.uuid4().hex}_{filename}"
UploadKey(user_id, uuid_hex, filename) ==
    <<(<<"uploads">>), (<<UserSegment(user_id)>>), (<<uuid_hex, "_", filename>>)>>

\* analyze_file: f"{settings.AWS_S3_ENDPOINT_URL}/{bucket}/{key}"
StorageUrl(bucket, key) == ENDPOINT_URL \o <<(<<bucket>>)>> \o key

\* key = storage_url.split('/')[-1]
RecoveredKey(storage_url) == <<storage_url[Len(storage_url)]>>

----------------------------------------------------------------------------
(* files/models.py *)

\* the comparison with >= in place of >
SizeMbOver_Inclusive(file_asset, n) == file_asset.size_bytes >= n * MiB

\* FileAsset.size_mb > n, i.e. size_bytes / (1024 * 1024) > n
SizeMbOver(file_asset, n) == file_asset.size_bytes > n * MiB

\* FileAsset.is_duplicate
IsDuplicate(file_asset) == file_asset.duplicate_of # NULL

\* Recommendation.RECOMMENDATION_KINDS
RECOMMENDATION_KINDS == {"duplicate", "compress", "share_link", "archive", "optimize"}

----------------------------------------------------------------------------
(* files/tasks.py: the pure parts of analyze_file *)

\* the query without .exclude(user=user)
DuplicateCandidates_NoExclude(table, file_sha256, user) ==
    {i \in 1..Len(table) : table[i].sha256 = file_sha256}

\* the query with .filter(user=user) in place of .exclude(user=user)
DuplicateCandidates_SameOwner(table, file_sha256, user) ==
    {i \in 1..Len(table) : table[i].sha256 = file_sha256 /\ table[i].user = user}

\* the query without .filter(sha256=file_sha256)
DuplicateCandidates_AnyHash(table, file_sha256, user) ==
    {i \in 1..Len(table) : table[i].user # user}

\* FileAsset.objects.filter(sha256=...).exclude(user=...): the ids matched
DuplicateCandidates(table, file_sha256, user) ==
    {i \in 1..Len(table) : table[i].sha256 = file_sha256 /\ table[i].user # user}

\* .first() of an unordered queryset orders by primary key
First(ids) == IF ids = {} THEN NULL ELSE CHOOSE i \in ids : \A j \in ids : i <= j

DuplicateLookup(table, file_sha256, user) ==
    First(DuplicateCandidates(table, file_sha256, user))

\* size_gb = size_bytes / (1024 * 1024 * 1024)
SizeGb(size_bytes) == FxOfBytes(size_bytes)

\* kwh_estimate = size_gb * settings.REGION_KWH_PER_GB
KwhEstimate(size_bytes, kwh_per_gb) == FxMul(SizeGb(size_bytes), kwh_per_gb)

\* co2_g_estimate = kwh_estimate * settings.REGION_CO2_G_PER_KWH
Co2Estimate(size_bytes, kwh_per_gb, co2_per_kwh) ==
    FxMul(KwhEstimate(size_bytes, kwh_per_gb), co2_per_kwh)

\* hundredths of the score before int(): size_gb * 10000 + co2_g_estimate
ScoreHundredths(size_bytes, kwh_per_gb, co2_per_kwh) ==
    FxAdd(FxMul(SizeGb(size_bytes), 10000),
          Co2Estimate(size_bytes, kwh_per_gb, co2_per_kwh))

\* the score without min(100, ...)
ImpactScore_NoClamp(size_bytes, kwh_per_gb, co2_per_kwh) ==
    FxInt(ScoreHundredths(size_bytes, kwh_per_gb, co2_per_kwh)) \div 100

\* the score wrapping around above 100 instead of saturating
ImpactScore_Wrap(size_bytes, kwh_per_gb, co2_per_kwh) ==
    (FxInt(ScoreHundredths(size_bytes, kwh_per_gb, co2_per_kwh)) \div 100) % 101

\* the score with round() in place of int()
ImpactScore_Round(size_bytes, kwh_per_gb, co2_per_kwh) ==
    Min(100, (FxInt(ScoreHundredths(size_bytes, kwh_per_gb, co2_per_kwh)) + 50) \div 100)

\* min(100, int((size_gb * 100) + (co2_g_estimate / 1000 * 10)))
\* computed exactly as int((size_gb * 10000 + co2_g_estimate) / 100)
ImpactScore(size_bytes, kwh_per_gb, co2_per_kwh) ==
    Min(100, FxInt(ScoreHundredths(size_bytes, kwh_per_gb, co2_per_kwh)) \div 100)

\* The values a recommendation's message text cites ("" / 0 where it cites none)
Message(filename, size_bytes, co2_g) ==
    [filename |-> filename, size_bytes |-> size_bytes, co2_g |-> co2_g]

\* the checks chained with elif after the duplicate check: the first size
\* check that fires wins
GenerateRecommendations_Elif(file_asset, table) ==
    (IF file_asset.duplicate_of # NULL
        THEN <<[kind |-> "duplicate",
                message |-> Message(table[file_asset.duplicate_of].filename, 0,
                                    file_asset.co2_g_estimate)]>>
        ELSE <<>>)
    \o (IF SizeMbOver(file_asset, 10)
        THEN <<[kind |-> "compress",
                message |-> Message("", file_asset.size_bytes, FxZero)]>>
        ELSE IF /\ InMime("video", file_asset.mime_type) \/ InMime("audio", file_asset.mime_type)
                /\ SizeMbOver(file_asset, 50)
        THEN <<[kind |-> "share_link", message |-> Message("", 0, FxZero)]>>
        ELSE IF SizeMbOver(file_asset, 100)
        THEN <<[kind |-> "optimize",
                message |-> Message("", file_asset.size_bytes,
                                    file_asset.co2_g_estimate)]>>
        ELSE <<>>)

\* _generate_recommendations(file_asset); `table` resolves duplicate_of
GenerateRecommendations(file_asset, table) ==
    (IF file_asset.duplicate_of # NULL
        THEN <<[kind |-> "duplicate",
                message |-> Message(table[file_asset.duplicate_of].filename, 0,
                                    file_asset.co2_g_estimate)]>>
        ELSE <<>>)
    \o (IF SizeMbOver(file_asset, 10)
        THEN <<[kind |-> "compress",
                message |-> Message("", file_asset.size_bytes, FxZero)]>>
        ELSE <<>>)
    \o (IF /\ file_asset.mime_type # <<>>
           /\ InMime("video", file_asset.mime_type) \/ InMime("audio", file_asset.mime_type)
           /\ SizeMbOver(file_asset, 50)
        THEN <<[kind |-> "share_link", message |-> Message("", 0, FxZero)]>>
        ELSE <<>>)
    \o (IF SizeMbOver(file_asset, 100)
        THEN <<[kind |-> "optimize",
                message |-> Message("", file_asset.size_bytes,
                                    file_asset.co2_g_estimate)]>>
        ELSE <<>>)

----------------------------------------------------------------------------
(* State *)

\* values of the regional settings under which the tasks run
KwhPerGbValues == {1}
Co2PerKwhValues == {400}

\* declared sizes of the concurrent runs: below and above the 10 MB threshold
SizeSamples == {5 * MiB, 11 * MiB}

Filenames == {"a.bin"}

\* locals of an invocation that has not been submitted
IdleTask ==
    [pc |-> "idle", request |-> <<>>, response |-> <<>>,
     user_id |-> NULL, bucket |-> "", key |-> <<>>, content |-> "", filename |-> "",
     size_bytes |-> 0, file_sha256 |-> "", mime_type |-> <<>>,
     duplicate_file |-> NULL, seen |-> {},
     kwh_estimate |-> FxZero, co2_g_estimate |-> FxZero, impact_score |-> 0,
     file_id |-> NULL, recommendations |-> <<>>, created |-> 0,
     raised |-> "", result |-> <<>>, locals |-> <<>>]

\* the process starts with the settings loaded and both tables empty
InitWith(kwh_values, co2_values) ==
    /\ kwhPerGb \in kwh_values
    /\ co2PerKwh \in co2_values
    /\ files = <<>>
    /\ recs = <<>>
    /\ tasks = [t \in Tasks |-> IdleTask]

Init == InitWith(KwhPerGbValues, Co2PerKwhValues)

Store == <<files, recs>>
Settings == <<kwhPerGb, co2PerKwh>>

----------------------------------------------------------------------------
(* analyze_file, one step per call that reads or writes outside the task *)

\* except clauses that log and return an error dict instead of re-raising
Raise_Swallow(t, exc) ==
    tasks' = [tasks EXCEPT ![t].pc = "done", ![t].raised = exc,
                           ![t].result = <<[error |-> exc]>>]

\* the except clauses: log and re-raise
Raise(t, exc) ==
    tasks' = [tasks EXCEPT ![t].pc = "failed", ![t].raised = exc]

\* a commit request: the authenticated user and request.data
Request(user, bucket, key, filename, size_bytes) ==
    [user |-> user,
     data |-> [bucket |-> bucket, key |-> key, filename |-> filename,
               size_bytes |-> size_bytes]]

\* the 202 response of commit_upload
Accepted(task_id, data) ==
    [status |-> 202, task_id |-> task_id,
     filename |-> data.filename, size_bytes |-> data.size_bytes]

\* a job that carries the first user's id whoever asked
Submit_FirstUser(t, request, content) ==
    tasks' = [tasks EXCEPT ![t].pc = "get_user",
                           ![t].request = <<request>>,
                           ![t].response = <<Accepted(t, request.data)>>,
                           ![t].user_id = 1,
                           ![t].bucket = request.data.bucket,
                           ![t].key = request.data.key,
                           ![t].content = content,
                           ![t].filename = request.data.filename,
                           ![t].size_bytes = request.data.size_bytes]

\* task_result = analyze_file.delay(user_id=request.user.id, bucket=..., key=...,
\* filename=..., size_bytes=...) and the 202 response; `content` is what the
\* object store holds under (bucket, key)
Submit(t, request, content) ==
    tasks' = [tasks EXCEPT ![t].pc = "get_user",
                           ![t].request = <<request>>,
                           ![t].response = <<Accepted(t, request.data)>>,
                           ![t].user_id = request.user,
                           ![t].bucket = request.data.bucket,
                           ![t].key = request.data.key,
                           ![t].content = content,
                           ![t].filename = request.data.filename,
                           ![t].size_bytes = request.data.size_bytes]

\* invocation t is being run by a worker
Running(t) ==
    tasks[t].pc \in {"get_user", "download", "check_duplicates", "create_file", "create_recs"}

\* commit number t may be served: commits are numbered in the order they
\* arrive, and its job is taken up when the pool has a free worker
MayCommit(t) ==
    /\ tasks[t].pc = "idle"
    /\ \A s \in Tasks : s < t => tasks[s].pc # "idle"
    /\ Cardinality({s \in Tasks : Running(s)}) < Workers

\* commit_upload with valid data for an object uploaded under the key that
\* request_upload_url issued
Delay(t, user_ids, contents, filenames, sizes) ==
    /\ MayCommit(t)
    /\ \E u \in user_ids, c \in contents, fn \in filenames, sz \in sizes :
         Submit(t, Request(u, BUCKET_NAME, UploadKey(u, UuidHex(t), fn), fn, sz), c)
    /\ UNCHANGED <<Settings, Store>>

\* user = User.objects.get(id=user_id)
GetUser(t) ==
    /\ tasks[t].pc = "get_user"
    /\ IF tasks[t].user_id \in Users
          THEN tasks' = [tasks EXCEPT ![t].pc = "download"]
          ELSE Raise(t, "DoesNotExist")
    /\ UNCHANGED <<Settings, Store>>

\* a fingerprint that also covers the filename
Download_HashesName(t) ==
    /\ tasks[t].pc = "download"
    /\ tasks' = [tasks EXCEPT ![t].pc = "check_duplicates",
                              ![t].file_sha256 =
                                  IF tasks[t].filename = "a.bin"
                                     THEN Sha256(tasks[t].content)
                                     ELSE Sha256("song"),
                              ![t].mime_type = MimeFromBuffer(tasks[t].content)]
    /\ UNCHANGED <<Settings, Store>>

\* s3_client.download_fileobj, then the hash and the MIME type of the bytes
Download(t) ==
    /\ tasks[t].pc = "download"
    /\ tasks' = [tasks EXCEPT ![t].pc = "check_duplicates",
                              ![t].file_sha256 = Sha256(tasks[t].content),
                              ![t].mime_type = MimeFromBuffer(tasks[t].content)]
    /\ UNCHANGED <<Settings, Store>>

DownloadFails(t) ==
    /\ tasks[t].pc = "download"
    /\ Raise(t, "ClientError")
    /\ UNCHANGED <<Settings, Store>>

\* the duplicate query, then the estimates and the score (local arithmetic).
\* `seen` records which rows were committed when the query ran.
CheckDuplicates(t) ==
    /\ tasks[t].pc = "check_duplicates"
    /\ tasks' = [tasks EXCEPT
          ![t].pc = "create_file",
          ![t].duplicate_file = DuplicateLookup(files, tasks[t].file_sha256, tasks[t].user_id),
          ![t].seen = 1..Len(files),
          ![t].kwh_estimate = KwhEstimate(tasks[t].size_bytes, kwhPerGb),
          ![t].co2_g_estimate = Co2Estimate(tasks[t].size_bytes, kwhPerGb, co2PerKwh),
          ![t].impact_score = ImpactScore(tasks[t].size_bytes, kwhPerGb, co2PerKwh)]
    /\ UNCHANGED <<Settings, Store>>

\* the row FileAsset.objects.create(...) inserts
NewFileAsset(t, id) ==
    [id |-> id, user |-> tasks[t].user_id, filename |-> tasks[t].filename,
     size_bytes |-> tasks[t].size_bytes, mime_type |-> tasks[t].mime_type,
     sha256 |-> tasks[t].file_sha256,
     storage_url |-> StorageUrl(tasks[t].bucket, tasks[t].key),
     duplicate_of |-> tasks[t].duplicate_file,
     kwh_estimate |-> tasks[t].kwh_estimate,
     co2_g_estimate |-> tasks[t].co2_g_estimate,
     impact_score |-> tasks[t].impact_score]

\* file_asset = FileAsset.objects.create(...), committed at once, then
\* recommendations = _generate_recommendations(file_asset)
\* update_or_create keyed on the content hash in place of create
CreateFileAsset_Upsert(t) ==
    /\ tasks[t].pc = "create_file"
    /\ LET old == {i \in (1..Len(files)) : files[i].sha256 = tasks[t].file_sha256}
           id == IF old = {} THEN Len(files) + 1 ELSE First(old)
           file_asset == NewFileAsset(t, id)
       IN  /\ files' = IF old = {} THEN Append(files, file_asset)
                                   ELSE [files EXCEPT ![id] = file_asset]
           /\ tasks' = [tasks EXCEPT
                 ![t].pc = "create_recs",
                 ![t].file_id = file_asset.id,
                 ![t].recommendations = GenerateRecommendations(file_asset, files)]
    /\ UNCHANGED <<Settings, recs>>

CreateFileAsset(t) ==
    /\ tasks[t].pc = "create_file"
    /\ LET file_asset == NewFileAsset(t, Len(files) + 1)
       IN  /\ files' = Append(files, file_asset)
           /\ tasks' = [tasks EXCEPT
                 ![t].pc = "create_recs",
                 ![t].file_id = file_asset.id,
                 ![t].recommendations = GenerateRecommendations(file_asset, files)]
    /\ UNCHANGED <<Settings, recs>>

CreateFileAssetFails(t) ==
    /\ tasks[t].pc = "create_file"
    /\ Raise(t, "DatabaseError")
    /\ UNCHANGED <<Settings, Store>>

\* one pass of `for rec in recommendations: Recommendation.objects.create(...)`
CreateRecommendation(t) ==
    /\ tasks[t].pc = "create_recs"
    /\ tasks[t].created < Len(tasks[t].recommendations)
    /\ LET rec == tasks[t].recommendations[tasks[t].created + 1]
       IN  recs' = Append(recs, [id |-> Len(recs) + 1, file |-> tasks[t].file_id,
                                 kind |-> rec.kind, message |-> rec.message])
    /\ tasks' = [tasks EXCEPT ![t].created = tasks[t].created + 1]
    /\ UNCHANGED <<Settings, files>>

CreateRecommendationFails(t) ==
    /\ tasks[t].pc = "create_recs"
    /\ tasks[t].created < Len(tasks[t].recommendations)
    /\ Raise(t, "DatabaseError")
    /\ UNCHANGED <<Settings, Store>>

\* the loop is over: return the summary dict
Return(t) ==
    /\ tasks[t].pc = "create_recs"
    /\ tasks[t].created = Len(tasks[t].recommendations)
    /\ tasks' = [tasks EXCEPT
          ![t].pc = "done",
          ![t].result = <<[file_id |-> tasks[t].file_id,
                           sha256 |-> tasks[t].file_sha256,
                           mime_type |-> tasks[t].mime_type,
                           is_duplicate |-> tasks[t].duplicate_file # NULL,
                           impact_score |-> tasks[t].impact_score,
                           recommendations_count |-> Len(tasks[t].recommendations)]>>]
    /\ UNCHANGED <<Settings, Store>>

Step(t) ==
    \/ GetUser(t)
    \/ Download(t)
    \/ DownloadFails(t)
    \/ CheckDuplicates(t)
    \/ CreateFileAsset(t)
    \/ CreateFileAssetFails(t)
    \/ CreateRecommendation(t)
    \/ CreateRecommendationFails(t)
    \/ Return(t)

Next ==
    \E t \in Tasks :
        \/ Delay(t, Users \cup {GhostUser}, Contents, Filenames, SizeSamples)
        \/ Step(t)

Spec == Init /\ [][Next]_vars

----------------------------------------------------------------------------
(* Reading the store *)

FileIds == 1..Len(files)

\* the invocation whose create inserted row i
FileTask(i) == CHOOSE t \in Tasks : tasks[t].file_id = i

\* the recommendation rows of file i, in creation order
RecsOf(i) == SelectSeq(recs, LAMBDA r : r.file = i)

Kinds(rs) == [k \in 1..Len(rs) |-> rs[k].kind]

SameContent(i, j) == files[i].sha256 = files[j].sha256

\* i and j are the only rows with their content hash
OnlyPair(i, j) == \A k \in FileIds : SameContent(k, i) => k \in {i, j}

Terminated(t) == tasks[t].pc \in {"done", "failed"}

\* invocation t has inserted its FileAsset and every recommendation generated
\* for it (no later step of it can fail)
UnitWritten(t) ==
    /\ tasks[t].pc \in {"create_recs", "done"}
    /\ tasks[t].created = Len(tasks[t].recommendations)

----------------------------------------------------------------------------
(* Atomicity of the write *)

\* C1: a duplicate lookup never returns a FileAsset whose invocation has not
\* yet written all its Recommendations or goes on to fail: whenever a lookup
\* returns a row, the invocation that inserted the row has written its whole
\* unit.
C1_LookupSeesOnlyCompleteUnits ==
    [][\A t \in Tasks :
          (/\ tasks[t].pc = "check_duplicates"
           /\ tasks'[t].pc = "create_file"
           /\ tasks'[t].duplicate_file # NULL)
          => \E u \in Tasks : /\ tasks[u].file_id = tasks'[t].duplicate_file
                              /\ UnitWritten(u)]_vars

\* C2: a failed invocation leaves no FileAsset and no Recommendation of its
\* own in the store; a terminated invocation left either nothing or a
\* FileAsset with all the recommendations generated for it.
C2_AllOrNothing ==
    \A t \in Tasks :
        /\ tasks[t].pc = "failed"
              => /\ tasks[t].file_id = NULL
                 /\ \A k \in 1..Len(recs) : recs[k].file # tasks[t].file_id
        /\ Terminated(t) /\ tasks[t].file_id # NULL
              => Kinds(RecsOf(tasks[t].file_id)) = Kinds(tasks[t].recommendations)

----------------------------------------------------------------------------
(* Duplicate links *)

\* C3: every duplicate_of that is set references a different row with the
\* same sha256 and a different owner, which was already in the table when
\* the referencing invocation's lookup ran; no row references itself.
C3_DuplicateOfIsEarlierForeignMatch ==
    \A i \in FileIds :
        files[i].duplicate_of # NULL =>
            LET d == files[i].duplicate_of
            IN  /\ d \in FileIds
                /\ d # i
                /\ files[d].id # files[i].id
                /\ files[d].sha256 = files[i].sha256
                /\ files[d].user # files[i].user
                /\ d \in tasks[FileTask(i)].seen

C3_Witness == \E i \in FileIds : files[i].duplicate_of # NULL

\* C4: every duplicate_of points at a row that is not itself a duplicate,
\* namely the earliest non-duplicate row with that sha256 (one hop at most).
C4_ChainsAreOneHop ==
    \A i \in FileIds :
        files[i].duplicate_of # NULL =>
            /\ files[files[i].duplicate_of].duplicate_of = NULL
            /\ files[i].duplicate_of =
                  First({j \in FileIds : SameContent(j, i) /\ files[j].duplicate_of = NULL})

\* C5: of two rows with the same content from different owners (and no other
\* row with that content), where the first was in the table when the second's
\* lookup ran, the second links to the first and the first links to nothing.
C5_SecondLinksToFirst ==
    \A i, j \in FileIds :
        (/\ i # j
         /\ SameContent(i, j)
         /\ files[i].user # files[j].user
         /\ OnlyPair(i, j)
         /\ i \in tasks[FileTask(j)].seen)
        => /\ files[j].duplicate_of = i
           /\ files[i].duplicate_of = NULL

C5_Witness ==
    \E i, j \in FileIds :
        /\ i # j /\ SameContent(i, j) /\ files[i].user # files[j].user
        /\ OnlyPair(i, j)
        /\ i \in tasks[FileTask(j)].seen
        /\ tasks[FileTask(i)].pc = "done" /\ tasks[FileTask(j)].pc = "done"

\* both rows exist with the same content, different owners, and no link
Unlinked(i, j) == files[i].duplicate_of = NULL /\ files[j].duplicate_of = NULL

\* each invocation's lookup ran before the other's insert
BothLookupsFirst(i, j) ==
    /\ j \notin tasks[FileTask(i)].seen
    /\ i \notin tasks[FileTask(j)].seen

\* C6: two rows with the same content from different owners (and no other
\* row with that content) are both unlinked exactly when each invocation's
\* lookup ran before the other's insert; otherwise exactly one of the two
\* links to the other.
C6_RaceIffLookupsPrecedeInserts ==
    \A i, j \in FileIds :
        (i # j /\ SameContent(i, j) /\ files[i].user # files[j].user /\ OnlyPair(i, j))
        => /\ Unlinked(i, j) <=> BothLookupsFirst(i, j)
           /\ ~Unlinked(i, j) =>
                 (files[i].duplicate_of = j) # (files[j].duplicate_of = i)

\* the race: two unlinked rows with the same content from different owners
C6_Witness ==
    \E i, j \in FileIds :
        /\ i # j /\ SameContent(i, j) /\ files[i].user # files[j].user
        /\ OnlyPair(i, j)
        /\ Unlinked(i, j)
        /\ BothLookupsFirst(i, j)

\* C7: a row whose content no other owner has in the table has no
\* duplicate_of and no 'duplicate' recommendation, however often its owner
\* analyzed that content.
C7_SameOwnerNeverDuplicate ==
    \A i \in FileIds :
        (\A k \in FileIds : SameContent(k, i) => files[k].user = files[i].user)
        => /\ files[i].duplicate_of = NULL
           /\ \A k \in 1..Len(recs) : recs[k].file = i => recs[k].kind # "duplicate"

\* the same owner analyzed the same content twice, to completion
C7_Witness ==
    \E i, j \in FileIds :
        /\ i # j /\ SameContent(i, j)
        /\ \A k \in FileIds : SameContent(k, i) => files[k].user = files[i].user
        /\ tasks[FileTask(i)].pc = "done" /\ tasks[FileTask(j)].pc = "done"

----------------------------------------------------------------------------
(* Impact estimation: the same task, run by one owner over a range of       *)
(* declared sizes and regional settings                                     *)

ImpactKwhPerGbValues == {0, 1, 2}
ImpactCo2PerKwhValues == {0, 400}

\* declared sizes: empty, one byte, a pair and its double on either side of
\* the score's ceiling, and the largest size below 2 GiB
ImpactSizes ==
    {0, 1, 5 * MiB, 10 * MiB, 512 * MiB, GiB, GiB + 5 * MiB, GiB + (GiB - 1)}

\* two invocations are enough to compare two declared sizes
ImpactTasks == {1, 2}

InitImpact == InitWith(ImpactKwhPerGbValues, ImpactCo2PerKwhValues)

NextImpact ==
    \E t \in ImpactTasks :
        \/ Delay(t, {1}, {"note"}, Filenames, ImpactSizes)
        \/ Step(t)

SpecImpact == InitImpact /\ [][NextImpact]_vars

\* n * x by doubling and adding
RECURSIVE FxTimes(_, _)
FxTimes(n, x) ==
    IF n = 0 THEN FxZero
    ELSE LET h == FxTimes(n \div 2, x)
         IN  IF n % 2 = 0 THEN FxAdd(h, h) ELSE FxAdd(FxAdd(h, h), x)

\* C8: every persisted FileAsset has 0 <= impact_score <= 100.
C8_ImpactScoreInRange ==
    \A i \in FileIds : files[i].impact_score \in 0..100

\* a row whose score was cut down to 100 and a row with score 0
C8_Witness ==
    \E i, j \in FileIds :
        /\ files[i].size_bytes > GiB /\ files[i].impact_score = 100
        /\ files[j].impact_score = 0

\* C9: under fixed settings the score does not decrease as the declared size
\* grows, and a score of 100 stays 100 for every larger size.
C9_ImpactScoreMonotone ==
    \A i, j \in FileIds :
        files[i].size_bytes <= files[j].size_bytes
        => /\ files[i].impact_score <= files[j].impact_score
           /\ files[i].impact_score = 100 => files[j].impact_score = 100

\* a larger file with a larger score that has reached the ceiling
C9_Witness ==
    \E i, j \in FileIds :
        /\ files[i].size_bytes < files[j].size_bytes
        /\ 0 < files[i].impact_score
        /\ files[i].impact_score < files[j].impact_score
        /\ files[j].impact_score = 100

\* kwh_estimate = (size_bytes / 2^30) * kwhPerGb, as quotient and remainder
KwhFormula(i) ==
    LET q == files[i].size_bytes \div GiB
        r == (files[i].size_bytes % GiB) * kwhPerGb
    IN  files[i].kwh_estimate = [w |-> q * kwhPerGb + (r \div GiB), f |-> r % GiB]

\* co2_g_estimate = kwh_estimate * co2GramsPerKwh
Co2Formula(i) == files[i].co2_g_estimate = FxTimes(co2PerKwh, files[i].kwh_estimate)

\* impact_score = min(100, floor(sizeGb * 100 + co2_g_estimate / 1000 * 10)),
\* stated on 100 times the floored quantity
ScoreFormula(i) ==
    LET x == FxAdd(FxTimes(10000, FxOfBytes(files[i].size_bytes)),
                   files[i].co2_g_estimate)
        s == files[i].impact_score
    IN  IF x.w >= 10000 THEN s = 100
        ELSE 100 * s <= x.w /\ x.w < 100 * (s + 1)

\* C10: the stored estimates and score follow the three formulas; hence both
\* estimates are 0 for size 0, doubling the size doubles both estimates, and
\* 5 MiB under kwhPerGb = 1, co2GramsPerKwh = 400 scores 0.
C10_EstimatesFollowFormulas ==
    /\ \A i \in FileIds :
          /\ KwhFormula(i) /\ Co2Formula(i) /\ ScoreFormula(i)
          /\ files[i].size_bytes = 0
                => files[i].kwh_estimate = FxZero /\ files[i].co2_g_estimate = FxZero
          /\ (files[i].size_bytes = 5242880 /\ kwhPerGb = 1 /\ co2PerKwh = 400)
                => files[i].impact_score = 0
    /\ \A i, j \in FileIds :
          (files[j].size_bytes % 2 = 0 /\ files[j].size_bytes \div 2 = files[i].size_bytes)
          => /\ files[j].kwh_estimate = FxAdd(files[i].kwh_estimate, files[i].kwh_estimate)
             /\ files[j].co2_g_estimate =
                   FxAdd(files[i].co2_g_estimate, files[i].co2_g_estimate)

\* the 5 MiB example and its double, under the example's settings
C10_Witness ==
    /\ kwhPerGb = 1 /\ co2PerKwh = 400
    /\ \E i, j \in FileIds :
          /\ files[i].size_bytes = 5242880
          /\ files[i].co2_g_estimate # FxZero
          /\ files[j].size_bytes = 2 * 5242880

----------------------------------------------------------------------------
(* Recommendations: the same task over sizes at and around the thresholds,  *)
(* media and non-media contents, two owners                                 *)

RecommendationSizes ==
    {10 * MiB, 10 * MiB + 1, 11 * MiB, 50 * MiB, 50 * MiB + 1,
     100 * MiB, 100 * MiB + 1, 101 * MiB}

\* two invocations are enough for a duplicate match
RecommendationTasks == {1, 2}

NextRecommendations ==
    \E t \in RecommendationTasks :
        \/ Delay(t, Users, MediaContents, Filenames, RecommendationSizes)
        \/ Step(t)

SpecRecommendations == Init /\ [][NextRecommendations]_vars

\* the kinds the four conditions select, in the order of the checks,
\* with the thresholds in bytes
ExpectedKinds(f) ==
    SelectSeq(<<"duplicate", "compress", "share_link", "optimize">>,
              LAMBDA k :
                CASE k = "duplicate"  -> f.duplicate_of # NULL
                  [] k = "compress"   -> f.size_bytes > 10485760
                  [] k = "share_link" -> /\ f.mime_type[1] \in {"video", "audio"}
                                         /\ f.size_bytes > 52428800
                  [] k = "optimize"   -> f.size_bytes > 104857600)

\* invocation t has inserted its FileAsset and generated its recommendations
Generated(t) == tasks[t].file_id # NULL

\* C11: _generate_recommendations returns exactly the in-order subsequence
\* of duplicate, compress, share_link, optimize whose conditions hold, and a
\* completed invocation has persisted exactly that sequence.
C11_RecommendationsAreTheFiringChecks ==
    \A t \in Tasks :
        Generated(t) =>
            /\ Kinds(tasks[t].recommendations) = ExpectedKinds(files[tasks[t].file_id])
            /\ tasks[t].pc = "done" =>
                  Kinds(RecsOf(tasks[t].file_id)) = ExpectedKinds(files[tasks[t].file_id])

\* a 101 MiB video with a duplicate match got all four, in order
C11_Witness ==
    \E t \in Tasks :
        /\ tasks[t].pc = "done"
        /\ tasks[t].size_bytes = 101 * MiB
        /\ tasks[t].mime_type = <<"video", "mp4">>
        /\ tasks[t].duplicate_file # NULL
        /\ Kinds(RecsOf(tasks[t].file_id)) =
              <<"duplicate", "compress", "share_link", "optimize">>

\* C12: a completed invocation with no duplicate match and a MIME type naming
\* neither video nor audio has persisted exactly one recommendation, compress,
\* when 10 MiB < size <= 100 MiB, and none when size <= 10 MiB.
C12_NonMediaGetsCompressOnly ==
    \A t \in Tasks :
        (/\ tasks[t].pc = "done"
         /\ tasks[t].duplicate_file = NULL
         /\ \A k \in 1..Len(tasks[t].mime_type) :
               tasks[t].mime_type[k] \notin {"video", "audio"})
        => /\ (10 * MiB < tasks[t].size_bytes /\ tasks[t].size_bytes <= 100 * MiB)
                 => Kinds(RecsOf(tasks[t].file_id)) = <<"compress">>
           /\ tasks[t].size_bytes <= 10 * MiB
                 => RecsOf(tasks[t].file_id) = <<>>

\* an 11 MiB text file with its one recommendation, and one of exactly
\* 10 MiB with none
C12_Witness ==
    \E t, u \in Tasks :
        /\ tasks[t].pc = "done" /\ tasks[u].pc = "done"
        /\ tasks[t].content = "note" /\ tasks[u].content = "note"
        /\ tasks[t].duplicate_file = NULL /\ tasks[u].duplicate_file = NULL
        /\ tasks[t].size_bytes = 11 * MiB
        /\ Kinds(RecsOf(tasks[t].file_id)) = <<"compress">>
        /\ tasks[u].size_bytes = 10 * MiB
        /\ RecsOf(tasks[u].file_id) = <<>>

----------------------------------------------------------------------------
(* Failures before the first write *)

\* the step taken is invocation t raising exc
Raises(t, exc) == tasks[t].raised = "" /\ tasks'[t].raised = exc

\* C13: a missing owner fails the invocation before the object is fetched,
\* a failed fetch fails it before any write; either error ends the
\* invocation as failed with no result, and no step of the invocation up to
\* and including the failure changes the tables.
C13_EarlyFailuresWriteNothing ==
    [][\A t \in Tasks :
          /\ (tasks[t].pc = "get_user" /\ tasks'[t] # tasks[t])
                => IF tasks[t].user_id \in Users
                      THEN tasks'[t].raised = ""
                      ELSE Raises(t, "DoesNotExist")
          /\ Raises(t, "DoesNotExist")
                => /\ tasks[t].pc = "get_user"
                   /\ tasks'[t].file_sha256 = "" /\ tasks'[t].mime_type = <<>>
          /\ Raises(t, "ClientError") => tasks[t].pc = "download"
          /\ (Raises(t, "DoesNotExist") \/ Raises(t, "ClientError"))
                => /\ tasks'[t].pc = "failed"
                   /\ tasks'[t].result = <<>>
                   /\ tasks'[t].file_id = NULL
                   /\ tasks'[t].created = 0
          /\ (tasks'[t] # tasks[t]
              /\ tasks'[t].pc \in {"get_user", "download", "check_duplicates", "failed"}
              /\ tasks'[t].file_id = NULL)
                => UNCHANGED Store]_vars

\* one invocation failed on its owner and one on its fetch, beside a
\* stored file
C13_Witness ==
    \E t, u \in Tasks :
        /\ tasks[t].pc = "failed" /\ tasks[t].raised = "DoesNotExist"
        /\ tasks[u].pc = "failed" /\ tasks[u].raised = "ClientError"
        /\ Len(files) > 0

----------------------------------------------------------------------------
(* Retrying a failed invocation *)

\* analyze_file is invoked again with the arguments of the failed
\* invocation before it
Retry(t) ==
    /\ MayCommit(t)
    /\ t - 1 \in Tasks
    /\ tasks[t - 1].pc = "failed"
    /\ Submit(t, tasks[t - 1].request[1], tasks[t - 1].content)
    /\ UNCHANGED <<Settings, Store>>

\* one upload, its invocations one after the other: the first, then a retry
\* after each failure
NextRetry ==
    \E t \in Tasks :
        \/ /\ t = 1
           /\ Delay(t, Users, Contents, Filenames, SizeSamples)
        \/ Retry(t)
        \/ Step(t)

SpecRetry == Init /\ [][NextRetry]_vars

\* the rows of the upload that invocation t was given
RowsOfUpload(t) ==
    {i \in FileIds : /\ files[i].user = tasks[t].user_id
                     /\ files[i].sha256 = tasks[t].file_sha256
                     /\ files[i].storage_url = StorageUrl(tasks[t].bucket, tasks[t].key)}

\* C14: once a retry of a failed invocation has succeeded, the store is the
\* store of a single successful run: exactly one FileAsset for the upload,
\* with exactly the recommendations generated for it.
C14_RetryIsIdempotent ==
    \A s, t \in Tasks :
        (/\ s < t
         /\ tasks[s].pc = "failed"
         /\ tasks[t].pc = "done"
         /\ tasks[t].request = tasks[s].request
         /\ tasks[t].content = tasks[s].content)
            => /\ RowsOfUpload(t) = {tasks[t].file_id}
               /\ Len(files) = 1
               /\ Kinds(recs) = Kinds(tasks[t].recommendations)
               /\ \A k \in 1..Len(recs) : recs[k].file = tasks[t].file_id

----------------------------------------------------------------------------
(* Insert-only *)

IsPrefix(a, b) == Len(a) <= Len(b) /\ \A k \in 1..Len(a) : a[k] = b[k]

\* the step taken is one of invocation t
Moves(t) == tasks'[t] # tasks[t]

\* C15: every step leaves each existing FileAsset and Recommendation row as
\* it was and deletes none; an invocation inserts its one FileAsset when it
\* has none yet and afterwards only Recommendations of that FileAsset, at
\* most one row per step, so an invocation that completes has added exactly
\* one FileAsset and between zero and four Recommendations, all of that
\* FileAsset.
C15_OnlyInserts ==
    [][/\ IsPrefix(files, files')
       /\ IsPrefix(recs, recs')
       /\ (Len(files') - Len(files)) + (Len(recs') - Len(recs)) <= 1
       /\ \A t \in Tasks :
            /\ tasks[t].file_id # NULL => tasks'[t].file_id = tasks[t].file_id
            /\ (Moves(t) /\ Len(files') > Len(files))
                  => /\ tasks[t].file_id = NULL
                     /\ tasks'[t].file_id = Len(files')
                     /\ files'[Len(files')].id = Len(files')
            /\ (Moves(t) /\ Len(files') = Len(files))
                  => tasks'[t].file_id = tasks[t].file_id
            /\ (Moves(t) /\ Len(recs') > Len(recs))
                  => /\ recs'[Len(recs')].file = tasks[t].file_id
                     /\ tasks[t].file_id # NULL
                     /\ tasks'[t].created = tasks[t].created + 1
            /\ (Moves(t) /\ Len(recs') = Len(recs))
                  => tasks'[t].created = tasks[t].created
            /\ (Moves(t) /\ tasks'[t].pc = "done")
                  => /\ tasks[t].file_id \in FileIds
                     /\ tasks[t].created = Len(RecsOf(tasks[t].file_id))
                     /\ tasks[t].created \in 0..4]_vars

\* an invocation completed with four recommendations for the second row of
\* the table, another with none
C15_Witness ==
    \E t, u \in Tasks :
        /\ tasks[t].pc = "done" /\ tasks[t].file_id = 2
        /\ Len(RecsOf(2)) = 4
        /\ tasks[u].pc = "done" /\ tasks[u].file_id = 1
        /\ Len(RecsOf(1)) = 0

----------------------------------------------------------------------------
(* The commit endpoint *)

\* getattr(settings, 'MAX_UPLOAD_SIZE', 500 * 1024 * 1024), at its default
MAX_UPLOAD_SIZE == 500 * MiB

FileCommitFields == {"bucket", "key", "filename", "size_bytes"}

\* a size limit of one GiB
ValidateSizeBytes_Gib(value) == value <= GiB

\* FileCommitSerializer.validate_size_bytes
ValidateSizeBytes(value) == value <= MAX_UPLOAD_SIZE

\* serializer.is_valid(): the four fields are required, size_bytes has
\* min_value=1 and its validator (max_length is not reached by the names
\* used here)
IsValid(data) ==
    /\ FileCommitFields \subseteq DOMAIN data
    /\ data.size_bytes >= 1
    /\ ValidateSizeBytes(data.size_bytes)

BadRequest == [status |-> 400]
ServerError == [status |-> 500]

\* the commit is answered without a job
Answer(t, request, response) ==
    tasks' = [tasks EXCEPT ![t].pc = "rejected",
                           ![t].request = <<request>>,
                           ![t].response = <<response>>]

\* commit_upload; content is what the object store holds under the key
CommitUpload(t, request, content) ==
    /\ MayCommit(t)
    /\ \/ /\ ~IsValid(request.data)
          /\ Answer(t, request, BadRequest)
       \/ /\ IsValid(request.data)
          /\ Submit(t, request, content)
       \/ /\ IsValid(request.data)      \* analyze_file.delay raises
          /\ Answer(t, request, ServerError)
    /\ UNCHANGED <<Settings, Store>>

CommitSizes == {0, 1, MAX_UPLOAD_SIZE, MAX_UPLOAD_SIZE + 1}

\* data with one field left out
Without(data, field) == [f \in DOMAIN data \ {field} |-> data[f]]

\* the requests a client may post for commit number t
CommitRequests(t) ==
    LET full == {Request(u, BUCKET_NAME, UploadKey(u, UuidHex(t), fn), fn, sz) :
                    u \in Users, fn \in Filenames, sz \in CommitSizes}
    IN  full \cup {[user |-> r.user, data |-> Without(r.data, f)] :
                      r \in {q \in full : q.data.size_bytes = 1}, f \in FileCommitFields}

CommitTasks == {1, 2, 3}

NextCommit ==
    \E t \in CommitTasks :
        \/ \E request \in CommitRequests(t) : CommitUpload(t, request, "note")
        \/ Step(t)

SpecCommit == Init /\ [][NextCommit]_vars

\* commit number t has been answered
Answered(t) == tasks[t].response # <<>>

\* commit number t was answered 202
Enqueued(t) == Answered(t) /\ tasks[t].response[1].status = 202

\* the arguments of job t are the requesting user and the submitted data
CarriesRequest(t) ==
    LET request == tasks[t].request[1]
    IN  /\ tasks[t].user_id = request.user
        /\ tasks[t].bucket = request.data.bucket
        /\ tasks[t].key = request.data.key
        /\ tasks[t].filename = request.data.filename
        /\ tasks[t].size_bytes = request.data.size_bytes

\* C16 (in the state every step leads to): a commit answered 202 has its one job, which
\* carries the requesting user's id and the submitted bucket, key, filename
\* and size_bytes, and the answer names that job; every FileAsset was
\* inserted by the job of such a commit, for that commit's user and object.
C16_JobCarriesRequest ==
    /\ \A t \in CommitTasks :
          Enqueued(t) <=> tasks[t].pc \notin {"idle", "rejected"}
    /\ \A t \in CommitTasks :
          Enqueued(t)
            => /\ CarriesRequest(t)
               /\ tasks[t].response[1] =
                     [status |-> 202, task_id |-> t,
                      filename |-> tasks[t].request[1].data.filename,
                      size_bytes |-> tasks[t].request[1].data.size_bytes]
    /\ \A i \in FileIds :
          \E t \in CommitTasks :
              /\ Enqueued(t)
              /\ tasks[t].file_id = i
              /\ files[i].user = tasks[t].request[1].user
              /\ files[i].storage_url =
                    StorageUrl(tasks[t].request[1].data.bucket,
                               tasks[t].request[1].data.key)

\* C16 (in every step): the commit step itself writes no row and is answered
\* before its job has taken a step; the request, the answer and the job's
\* arguments never change afterwards, whatever the job does; a FileAsset is
\* inserted only by a step of an enqueued job.
C16_CommitStep ==
    \A t \in CommitTasks :
        /\ (tasks[t].pc = "idle" /\ Moves(t))
              => /\ UNCHANGED Store
                 /\ Answered(t)'
                 /\ tasks'[t].pc \in {"get_user", "rejected"}
                 /\ tasks'[t].file_id = NULL
        /\ Answered(t)
              => /\ tasks'[t].request = tasks[t].request
                 /\ tasks'[t].response = tasks[t].response
                 /\ Enqueued(t) => CarriesRequest(t)'
        /\ (Moves(t) /\ Len(files') > Len(files))
              => /\ Enqueued(t)
                 /\ tasks[t].pc = "create_file"

\* C16: commit_upload with valid data enqueues exactly one job carrying the
\* request, answers 202 with its task id without waiting for it, writes
\* nothing itself, and its answer does not depend on the job's outcome.
C16_CommitEnqueuesOneJob ==
    [][C16_CommitStep /\ C16_JobCarriesRequest']_vars

\* user 2's commit was answered 202 and its job failed, another commit was
\* answered 202 and its job stored the file
C16_Witness ==
    \E t, u \in CommitTasks :
        /\ Enqueued(t) /\ tasks[t].request[1].user = 2
        /\ tasks[t].pc = "failed" /\ tasks[t].file_id = NULL
        /\ Enqueued(u) /\ tasks[u].pc = "done" /\ tasks[u].file_id \in FileIds

\* the data of a request is acceptable by the stated rules
Acceptable(data) ==
    /\ "bucket" \in DOMAIN data
    /\ "key" \in DOMAIN data
    /\ "filename" \in DOMAIN data
    /\ "size_bytes" \in DOMAIN data
    /\ data.size_bytes >= 1
    /\ data.size_bytes <= 524288000

\* C18: a commit whose data lacks bucket, key or filename, or whose
\* size_bytes is missing, below 1 or above 500 MiB, is answered 400 and has no
\* job; every job has 1 <= size_bytes <= 500 MiB; a commit is answered 202
\* exactly when its job was enqueued, and 500 when enqueueing failed.
C18_InvalidCommitsAreRejected ==
    \A t \in CommitTasks :
        Answered(t)
          => LET request == tasks[t].request[1]
                 status == tasks[t].response[1].status
                 HasJob == tasks[t].pc # "rejected"
             IN  /\ status \in {202, 400, 500}
                 /\ ~Acceptable(request.data) => status = 400
                 /\ status = 400 => ~Acceptable(request.data)
                 /\ HasJob <=> status = 202
                 /\ ~HasJob => /\ tasks[t].user_id = IdleTask.user_id
                               /\ tasks[t].size_bytes = IdleTask.size_bytes
                               /\ tasks[t].file_id = NULL
                 /\ HasJob => /\ tasks[t].size_bytes >= 1
                              /\ tasks[t].size_bytes <= 524288000

\* one commit rejected for a size one byte over the limit, one that failed
\* to enqueue, and one at the limit whose job completed
C18_Witness ==
    \E t, u, v \in CommitTasks :
        /\ Answered(t) /\ tasks[t].response[1].status = 400
        /\ "size_bytes" \in DOMAIN tasks[t].request[1].data
        /\ tasks[t].request[1].data.size_bytes = 524288001
        /\ Answered(u) /\ tasks[u].response[1].status = 500
        /\ Answered(v) /\ tasks[v].response[1].status = 202
        /\ tasks[v].size_bytes = 524288000 /\ tasks[v].pc = "done"

----------------------------------------------------------------------------
(* Which input decides which output *)

InputFilenames == {"a.bin", "b.mp4"}

\* the first upload is user 1's, the later ones are user 2's under either
\* filename
NextInputs ==
    \E t \in Tasks :
        \/ /\ t = 1
           /\ Delay(t, {1}, Contents, Filenames, SizeSamples)
        \/ /\ t > 1
           /\ Delay(t, {2}, Contents, InputFilenames, SizeSamples)
        \/ Step(t)

SpecInputs == Init /\ [][NextInputs]_vars

Fetched(t) == tasks[t].file_sha256 # ""

LookedUp(t) == tasks[t].pc \in {"create_file", "create_recs", "done"} \/ Generated(t)

\* the size-based recommendations generated for invocation t
SizeKinds(t) ==
    SelectSeq(Kinds(tasks[t].recommendations), LAMBDA k : k \in {"compress", "optimize"})

\* C17: two invocations that fetched the same bytes have the same
\* fingerprint and MIME type whatever their filenames and declared sizes, and
\* the same duplicate match when they also have the same owner and queried
\* the same records; two invocations with the same declared size have the
\* same estimates, score and size-based recommendations whatever bytes they
\* fetched; the declared size is stored as given for any bytes.
C17_OutputsFollowTheirInputs ==
    \A s, t \in Tasks :
        /\ (Fetched(s) /\ Fetched(t) /\ tasks[s].content = tasks[t].content)
              => /\ tasks[s].file_sha256 = tasks[t].file_sha256
                 /\ tasks[s].mime_type = tasks[t].mime_type
        /\ (/\ LookedUp(s) /\ LookedUp(t)
            /\ tasks[s].content = tasks[t].content
            /\ tasks[s].user_id = tasks[t].user_id
            /\ tasks[s].seen = tasks[t].seen)
              => tasks[s].duplicate_file = tasks[t].duplicate_file
        /\ (LookedUp(s) /\ LookedUp(t) /\ tasks[s].size_bytes = tasks[t].size_bytes)
              => /\ tasks[s].kwh_estimate = tasks[t].kwh_estimate
                 /\ tasks[s].co2_g_estimate = tasks[t].co2_g_estimate
                 /\ tasks[s].impact_score = tasks[t].impact_score
        /\ (Generated(s) /\ Generated(t) /\ tasks[s].size_bytes = tasks[t].size_bytes)
              => SizeKinds(s) = SizeKinds(t)
        /\ Generated(t)
              => files[tasks[t].file_id].size_bytes = tasks[t].request[1].data.size_bytes

\* two invocations of one owner fetched the same bytes under different
\* filenames and declared sizes and matched the same earlier file of another
\* owner, whose bytes were the same and whose declared size was that of one
\* of them
C17_Witness ==
    \E r, s, t \in Tasks :
        /\ tasks[r].pc = "done" /\ tasks[s].pc = "done" /\ tasks[t].pc = "done"
        /\ tasks[s].content = tasks[t].content /\ tasks[r].content = tasks[s].content
        /\ tasks[s].filename # tasks[t].filename
        /\ tasks[s].size_bytes # tasks[t].size_bytes
        /\ tasks[s].user_id = tasks[t].user_id /\ tasks[r].user_id # tasks[s].user_id
        /\ tasks[s].seen = tasks[t].seen
        /\ tasks[s].duplicate_file = tasks[r].file_id
        /\ tasks[t].duplicate_file = tasks[r].file_id
        /\ tasks[r].size_bytes = tasks[s].size_bytes

----------------------------------------------------------------------------
(* The key behind a download URL *)

\* C19: for every FileAsset that analyze_file created from a key issued by
\* request_upload_url, the key that get_download_url recovers from
\* storage_url is the key the file was uploaded and analysed under.
C19_DownloadKeyIsUploadKey ==
    \A i \in FileIds :
        RecoveredKey(files[i].storage_url) = tasks[FileTask(i)].key

----------------------------------------------------------------------------
(* Recommendations against the row they belong to *)

\* the number of recommendations of kind k that file i has
CountOf(i, k) == Len(SelectSeq(RecsOf(i), LAMBDA r : r.kind = k))

\* C20: in every state, each FileAsset has a 'duplicate' recommendation
\* exactly when its duplicate_of is set, at most one recommendation of each
\* kind, none of kind 'archive', a compress recommendation whenever it has a
\* share_link or an optimize one, and the result its invocation returned
\* agrees with the row's duplicate_of and its number of recommendations.
C20_RecommendationsMatchTheRow ==
    \A i \in FileIds :
        /\ CountOf(i, "duplicate") > 0 <=> files[i].duplicate_of # NULL
        /\ \A k \in RECOMMENDATION_KINDS : CountOf(i, k) <= 1
        /\ CountOf(i, "archive") = 0
        /\ (CountOf(i, "share_link") > 0 \/ CountOf(i, "optimize") > 0)
              => CountOf(i, "compress") > 0
        /\ tasks[FileTask(i)].result # <<>>
              => /\ tasks[FileTask(i)].result[1].is_duplicate
                       = (files[i].duplicate_of # NULL)
                 /\ tasks[FileTask(i)].result[1].recommendations_count
                       = Len(RecsOf(i))

----------------------------------------------------------------------------
(* The read endpoints of the file and recommendation viewsets *)

Reverse(seq) == [k \in 1..Len(seq) |-> seq[Len(seq) + 1 - k]]

\* a queryset of every user's files
FileQueryset_All(table, user) == Reverse(table)

\* FileAssetViewSet.get_queryset:
\* FileAsset.objects.filter(user=self.request.user).order_by('-created_at')
FileQueryset(table, user) == Reverse(SelectSeq(table, LAMBDA f : f.user = user))

\* RecommendationViewSet.get_queryset:
\* Recommendation.objects.filter(file__user=self.request.user).order_by('-created_at')
RecommendationQueryset(table, rtable, user) ==
    Reverse(SelectSeq(rtable, LAMBDA r : table[r.file].user = user))

\* get_object(): the object of the queryset with this pk, if any
GetObject(queryset, pk) == SelectSeq(queryset, LAMBDA o : o.id = pk)

\* RecommendationSerializer
RecommendationData(r) == [id |-> r.id, kind |-> r.kind, message |-> r.message]

\* FileAssetListSerializer
FileListData(f) ==
    [id |-> f.id, user |-> f.user, filename |-> f.filename,
     size_bytes |-> f.size_bytes, mime_type |-> f.mime_type,
     is_duplicate |-> IsDuplicate(f), impact_score |-> f.impact_score,
     recommendations_count |-> Len(RecsOf(f.id))]

\* FileAssetSerializer.get_duplicate_of
DuplicateOfData(f) ==
    IF f.duplicate_of # NULL
       THEN <<[id |-> files[f.duplicate_of].id,
               filename |-> files[f.duplicate_of].filename,
               user |-> files[f.duplicate_of].user]>>
       ELSE <<>>

\* FileAssetSerializer
FileDetailData(f) ==
    [id |-> f.id, user |-> f.user, filename |-> f.filename,
     size_bytes |-> f.size_bytes, mime_type |-> f.mime_type, sha256 |-> f.sha256,
     storage_url |-> f.storage_url, duplicate_of |-> DuplicateOfData(f),
     is_duplicate |-> IsDuplicate(f), kwh_estimate |-> f.kwh_estimate,
     co2_g_estimate |-> f.co2_g_estimate, impact_score |-> f.impact_score,
     recommendations |-> [k \in 1..Len(RecsOf(f.id)) |-> RecommendationData(RecsOf(f.id)[k])]]

\* what GET /files/ serves to user
FileList(user) ==
    LET queryset == FileQueryset(files, user)
    IN  [k \in 1..Len(queryset) |-> FileListData(queryset[k])]

\* what GET /files/<pk>/ serves to user: the object, or nothing (404)
FileDetail(user, pk) ==
    LET found == GetObject(FileQueryset(files, user), pk)
    IN  [k \in 1..Len(found) |-> FileDetailData(found[k])]

\* what GET /recommendations/ serves to user
RecommendationList(user) ==
    LET queryset == RecommendationQueryset(files, recs, user)
    IN  [k \in 1..Len(queryset) |-> RecommendationData(queryset[k])]

\* what GET /recommendations/<pk>/ serves to user
RecommendationDetail(user, pk) ==
    LET found == GetObject(RecommendationQueryset(files, recs, user), pk)
    IN  [k \in 1..Len(found) |-> RecommendationData(found[k])]

ViewRequest(user, viewset, verb, pk) ==
    [user |-> user, data |-> [viewset |-> viewset, action |-> verb, pk |-> pk]]

Ok(data) == [status |-> 200, data |-> data]
NotFound == [status |-> 404, data |-> <<>>]
MethodNotAllowed == [status |-> 405, data |-> <<>>]

\* request number t may be served: requests are numbered in the order they
\* arrive
MayServe(t) ==
    /\ tasks[t].pc = "idle"
    /\ \A s \in Tasks : s < t => tasks[s].pc # "idle"

Respond(t, request, response) ==
    tasks' = [tasks EXCEPT ![t].pc = "answered",
                           ![t].request = <<request>>,
                           ![t].response = <<response>>]

\* ReadOnlyModelViewSet.list on either viewset
List(t, user, viewset) ==
    /\ MayServe(t)
    /\ Respond(t, ViewRequest(user, viewset, "list", NULL),
               Ok(IF viewset = "files" THEN FileList(user)
                                       ELSE RecommendationList(user)))
    /\ UNCHANGED <<Settings, Store>>

\* ReadOnlyModelViewSet.retrieve on either viewset
Retrieve(t, user, viewset, pk) ==
    /\ MayServe(t)
    /\ LET data == IF viewset = "files" THEN FileDetail(user, pk)
                                        ELSE RecommendationDetail(user, pk)
       IN  Respond(t, ViewRequest(user, viewset, "retrieve", pk),
                   IF data = <<>> THEN NotFound ELSE Ok(data))
    /\ UNCHANGED <<Settings, Store>>

\* the actions of a ModelViewSet that a ReadOnlyModelViewSet does not have
WriteVerbs == {"create", "update", "partial_update", "destroy"}

\* a request for one of them has no handler
NotRouted(t, user, viewset, verb) ==
    /\ MayServe(t)
    /\ verb \in WriteVerbs
    /\ Respond(t, ViewRequest(user, viewset, verb, NULL), MethodNotAllowed)
    /\ UNCHANGED <<Settings, Store>>

ViewSets == {"files", "recommendations"}

ViewSizes == {11 * MiB}

\* the primary keys a client may ask for
Pks == 1..NumTasks

NextViews ==
    \E t \in Tasks :
        \/ Delay(t, Users, {"clip"}, Filenames, ViewSizes)
        \/ Step(t)
        \/ \E u \in Users, v \in ViewSets : List(t, u, v)
        \/ \E u \in Users, v \in ViewSets, pk \in Pks : Retrieve(t, u, v, pk)
        \/ \E u \in Users, v \in ViewSets, verb \in WriteVerbs :
              NotRouted(t, u, v, verb)

SpecViews == Init /\ [][NextViews]_vars

\* the owner of recommendation j
RecommendationOwner(j) == files[recs[j].file].user

\* C21 (of every answer given): a list holds only the requester's files,
\* resp. recommendations of the requester's files, a retrieved object is the
\* requester's, and a create, update or delete request is not routed.
C21_AnswersAreOwn ==
    \A t \in Tasks :
        tasks[t].pc = "answered"
          => LET request == tasks[t].request[1]
                 response == tasks[t].response[1]
                 OwnFile(d) == d.id \in FileIds /\ files[d.id].user = request.user
                                  /\ d.user = request.user
                 OwnRecommendation(d) == d.id \in 1..Len(recs)
                                  /\ RecommendationOwner(d.id) = request.user
             IN  /\ request.data.action \in WriteVerbs
                     <=> response.status = 405
                 /\ response.status # 200 => response.data = <<>>
                 /\ request.data.action = "list" => response.status = 200
                 /\ request.data.action = "retrieve"
                     => /\ response.status \in {200, 404}
                        /\ response.status = 200
                              => /\ Len(response.data) = 1
                                 /\ response.data[1].id = request.data.pk
                 /\ \A k \in 1..Len(response.data) :
                        IF request.data.viewset = "files"
                           THEN OwnFile(response.data[k])
                           ELSE OwnRecommendation(response.data[k])

\* C21 (of every step): answering a request changes no row, and a retrieve
\* finds the object exactly when it exists and is the requester's; rows are
\* inserted only by a step of an analysis job and no row is changed or
\* deleted; a step that adds no file of user u and no recommendation of a
\* file of u leaves everything u is served as it was.
C21_Step ==
    /\ \A t \in Tasks :
          (Moves(t) /\ tasks'[t].pc = "answered")
            => /\ tasks[t].pc = "idle"
               /\ UNCHANGED Store
               /\ LET request == tasks'[t].request[1]
                      pk == request.data.pk
                  IN  request.data.action = "retrieve"
                        => (tasks'[t].response[1].status = 200
                              <=> IF request.data.viewset = "files"
                                     THEN pk \in FileIds /\ files[pk].user = request.user
                                     ELSE pk \in 1..Len(recs)
                                          /\ RecommendationOwner(pk) = request.user)
    /\ IsPrefix(files, files') /\ IsPrefix(recs, recs')
    /\ Store' # Store
          => \E t \in Tasks : Moves(t) /\ tasks[t].pc \in {"create_file", "create_recs"}
    /\ \A u \in Users :
          (/\ \A i \in (Len(files) + 1)..Len(files') : files'[i].user # u
           /\ \A j \in (Len(recs) + 1)..Len(recs') : files'[recs'[j].file].user # u)
            => /\ FileList(u)' = FileList(u)
               /\ RecommendationList(u)' = RecommendationList(u)
               /\ \A pk \in FileIds : FileDetail(u, pk)' = FileDetail(u, pk)
               /\ \A pk \in 1..Len(recs) :
                     RecommendationDetail(u, pk)' = RecommendationDetail(u, pk)
               /\ \A pk \in (Len(files) + 1)..Len(files') : FileDetail(u, pk)' = <<>>
               /\ \A pk \in (Len(recs) + 1)..Len(recs') :
                     RecommendationDetail(u, pk)' = <<>>

\* C21: the file list and detail endpoints serve only the requester's
\* FileAssets and the recommendation endpoints only recommendations of the
\* requester's files, what a user is served does not change when other
\* users' files are added, and the viewsets have no create, update or
\* delete.
C21_UsersAreServedTheirOwn == [][C21_Step /\ C21_AnswersAreOwn']_vars

\* user 2 is served a list of exactly one file, a duplicate of user 1's,
\* while the table holds a file of each user
C21_Witness ==
    \E t \in Tasks :
        /\ tasks[t].pc = "answered"
        /\ tasks[t].request[1] = ViewRequest(2, "files", "list", NULL)
        /\ Len(tasks[t].response[1].data) = 1
        /\ tasks[t].response[1].data[1].is_duplicate
        /\ Len(files) = 2 /\ files[1].user = 1 /\ files[2].user = 2

----------------------------------------------------------------------------
(* The analytics summary *)

\* a / b rounded to the nearest integer, halves to the even one
RoundDiv(a, b) ==
    LET q == a \div b
        r == a % b
    IN  IF 2 * r < b THEN q
        ELSE IF 2 * r > b THEN q + 1
        ELSE IF q % 2 = 0 THEN q ELSE q + 1

\* round(x, ndigits) of a non-negative float, scale = 10^ndigits: the result
\* is held as its whole number of 1/scale units, halves go to the even one
Round(x, scale) ==
    LET s == FxTimes(scale, x)
    IN  IF 2 * s.f < GiB THEN s.w
        ELSE IF 2 * s.f > GiB THEN s.w + 1
        ELSE IF s.w % 2 = 0 THEN s.w ELSE s.w + 1

RECURSIVE SumInt(_, _)
\* Sum(field) over a queryset, an integer column
SumInt(rows, field) ==
    IF rows = <<>> THEN 0 ELSE rows[1][field] + SumInt(Tail(rows), field)

RECURSIVE SumFloat(_, _)
\* Sum(field) over a queryset, a float column
SumFloat(rows, field) ==
    IF rows = <<>> THEN FxZero ELSE FxAdd(rows[1][field], SumFloat(Tail(rows), field))

\* FileAsset.objects.filter(user=request.user)
UserFiles(user) == SelectSeq(files, LAMBDA f : f.user = user)

\* no filter on duplicate_of
DuplicateFiles_All(rows) == rows

\* .filter(duplicate_of__isnull=False)
DuplicateFiles(rows) == SelectSeq(rows, LAMBDA f : f.duplicate_of # NULL)

\* .filter(created_at__gte=first_day_this_month): the rows inserted after
\* the first month_start rows of the table
ThisMonth(rows, month_start) == SelectSeq(rows, LAMBDA f : f.id > month_start)

\* the response of a user without files
EmptySummary ==
    [total_files |-> 0, total_size_bytes |-> 0, total_size_gb |-> 0,
     total_co2_saved_g |-> 0, total_kwh_saved |-> 0, duplicates_count |-> 0,
     duplicates_percentage |-> 0, average_impact_score |-> 0,
     files_this_month |-> 0, co2_saved_this_month |-> 0]

\* the locals of get_summary before its first query; `divisions` counts the
\* divisions performed, `last` is the number of rows at the latest query
NoLocals ==
    [total_files |-> 0, total_size |-> 0, impact_sum |-> 0, impact_count |-> 0,
     duplicates_count |-> 0, duplicates_percentage |-> 0,
     total_co2_saved_g |-> FxZero, total_kwh_saved |-> FxZero,
     files_this_month |-> 0, month_start |-> 0, divisions |-> 0, last |-> 0]

\* summary_data; a float rounded to n places is held as its number of
\* 10^-n units
SummaryData(l, co2_saved_this_month) ==
    [total_files |-> l.total_files,
     total_size_bytes |-> l.total_size,
     total_size_gb |-> Round(FxOfBytes(l.total_size), 100),
     total_co2_saved_g |-> Round(l.total_co2_saved_g, 100),
     total_kwh_saved |-> Round(l.total_kwh_saved, 10000),
     duplicates_count |-> l.duplicates_count,
     duplicates_percentage |-> l.duplicates_percentage,
     average_impact_score |-> RoundDiv(10 * l.impact_sum, l.impact_count),
     files_this_month |-> l.files_this_month,
     co2_saved_this_month |-> Round(co2_saved_this_month, 100)]

SummaryRequest(user) == ViewRequest(user, "analytics", "summary", NULL)

\* get_summary up to `if total_files == 0`: the first query
CountFiles(t, user) ==
    /\ MayServe(t)
    /\ LET total_files == Len(UserFiles(user))
       IN  IF total_files = 0
              THEN tasks' = [tasks EXCEPT
                      ![t].pc = "answered",
                      ![t].request = <<SummaryRequest(user)>>,
                      ![t].response = <<Ok(<<EmptySummary>>)>>,
                      ![t].seen = 1..Len(files),
                      ![t].locals = <<[NoLocals EXCEPT !.last = Len(files)]>>]
              ELSE tasks' = [tasks EXCEPT
                      ![t].pc = "aggregate",
                      ![t].request = <<SummaryRequest(user)>>,
                      ![t].seen = 1..Len(files),
                      ![t].locals = <<[NoLocals EXCEPT !.total_files = total_files,
                                                       !.last = Len(files)]>>]
    /\ UNCHANGED <<Settings, Store>>

\* summary request t after a query that ran against the table as it is now
\* and left the locals l
Queried(t, next, l) ==
    [tasks EXCEPT ![t].pc = next,
                  ![t].locals = <<[l EXCEPT !.last = Len(files)]>>]

\* user_files.aggregate(total_size=Sum(...), ..., avg_impact=Avg('impact_score'))
Aggregate(t) ==
    /\ tasks[t].pc = "aggregate"
    /\ LET rows == UserFiles(tasks[t].request[1].user)
           l == tasks[t].locals[1]
       IN  tasks' = Queried(t, "count_duplicates",
                            [l EXCEPT !.total_size = SumInt(rows, "size_bytes"),
                                      !.impact_sum = SumInt(rows, "impact_score"),
                                      !.impact_count = Len(rows),
                                      !.divisions = l.divisions + 1])
    /\ UNCHANGED <<Settings, Store>>

\* duplicates_count and duplicates_percentage
CountDuplicates(t) ==
    /\ tasks[t].pc = "count_duplicates"
    /\ LET rows == DuplicateFiles(UserFiles(tasks[t].request[1].user))
           l == tasks[t].locals[1]
       IN  tasks' = Queried(t, "sum_saved_co2",
                            [l EXCEPT !.duplicates_count = Len(rows),
                                      !.duplicates_percentage =
                                          RoundDiv(1000 * Len(rows), l.total_files),
                                      !.divisions = l.divisions + 1])
    /\ UNCHANGED <<Settings, Store>>

\* total_co2_saved_g
SumSavedCo2(t) ==
    /\ tasks[t].pc = "sum_saved_co2"
    /\ LET rows == DuplicateFiles(UserFiles(tasks[t].request[1].user))
           l == tasks[t].locals[1]
       IN  tasks' = Queried(t, "sum_saved_kwh",
                            [l EXCEPT !.total_co2_saved_g = SumFloat(rows, "co2_g_estimate")])
    /\ UNCHANGED <<Settings, Store>>

\* total_kwh_saved
SumSavedKwh(t) ==
    /\ tasks[t].pc = "sum_saved_kwh"
    /\ LET rows == DuplicateFiles(UserFiles(tasks[t].request[1].user))
           l == tasks[t].locals[1]
       IN  tasks' = Queried(t, "count_month",
                            [l EXCEPT !.total_kwh_saved = SumFloat(rows, "kwh_estimate")])
    /\ UNCHANGED <<Settings, Store>>

\* first_day_this_month and files_this_month; the month began after some
\* number of the rows had been inserted
CountMonth(t) ==
    /\ tasks[t].pc = "count_month"
    /\ \E month_start \in 0..Len(files) :
          LET rows == ThisMonth(UserFiles(tasks[t].request[1].user), month_start)
              l == tasks[t].locals[1]
          IN  tasks' = Queried(t, "sum_month",
                               [l EXCEPT !.month_start = month_start,
                                         !.files_this_month = Len(rows)])
    /\ UNCHANGED <<Settings, Store>>

\* co2_saved_this_month, summary_data and the response
SumMonth(t) ==
    /\ tasks[t].pc = "sum_month"
    /\ LET l == tasks[t].locals[1]
           rows == DuplicateFiles(ThisMonth(UserFiles(tasks[t].request[1].user),
                                            l.month_start))
           done == [l EXCEPT !.last = Len(files), !.divisions = l.divisions + 1]
       IN  tasks' = [tasks EXCEPT
               ![t].pc = "answered",
               ![t].locals = <<done>>,
               ![t].response = <<Ok(<<SummaryData(done, SumFloat(rows, "co2_g_estimate"))>>)>>]
    /\ UNCHANGED <<Settings, Store>>

SummaryPcs == {"aggregate", "count_duplicates", "sum_saved_co2", "sum_saved_kwh",
               "count_month", "sum_month"}

\* except Exception: a query raised
SummaryFails(t) ==
    /\ tasks[t].pc \in SummaryPcs
    /\ tasks' = [tasks EXCEPT ![t].pc = "answered",
                              ![t].response = <<ServerError>>]
    /\ UNCHANGED <<Settings, Store>>

\* the user whose summary is asked for
SummaryUsers == {2}

GetSummary(t) ==
    \/ \E u \in SummaryUsers : CountFiles(t, u)
    \/ Aggregate(t)
    \/ CountDuplicates(t)
    \/ SumSavedCo2(t)
    \/ SumSavedKwh(t)
    \/ CountMonth(t)
    \/ SumMonth(t)
    \/ SummaryFails(t)

SummarySizes == {11 * MiB, 128 * MiB}

\* the first upload is user 1's, the later ones are user 2's
NextSummary ==
    \E t \in Tasks :
        \/ /\ t = 1
           /\ Delay(t, {1}, {"clip"}, Filenames, SummarySizes)
        \/ /\ t > 1
           /\ Delay(t, {2}, {"clip"}, Filenames, SummarySizes)
        \/ Step(t)
        \/ GetSummary(t)

SpecSummary == Init /\ [][NextSummary]_vars

\* request t is a summary that was answered with data
Summarised(t) ==
    /\ tasks[t].pc = "answered"
    /\ tasks[t].request[1].data.action = "summary"
    /\ tasks[t].response[1].status = 200

\* every query of summary request t ran against the same rows
Snapshot(t) == tasks[t].seen = 1..tasks[t].locals[1].last

\* the files of the requester in the state of the store that request t saw
SummaryFiles(t) ==
    SelectSeq(SubSeq(files, 1, tasks[t].locals[1].last),
              LAMBDA f : f.user = tasks[t].request[1].user)

\* n units of 1/scale is x to the nearest unit
Nearest(n, scale, x) ==
    LET s == FxTimes(scale, x)
    IN  \/ n = s.w /\ 2 * s.f <= GiB
        \/ n = s.w + 1 /\ 2 * s.f >= GiB

\* n units of 1/scale is x exactly
Exactly(n, scale, x) == FxTimes(scale, x) = [w |-> n, f |-> 0]

\* the bounds of the summary d of the rows, and its fields when there are
\* no rows
SummaryBounds(t, d, rows) ==
    /\ d.total_files = Len(rows)
    /\ 0 <= d.duplicates_count /\ d.duplicates_count <= d.total_files
    /\ d.duplicates_count = Len(SelectSeq(rows, LAMBDA f : f.duplicate_of # NULL))
    /\ 0 <= d.duplicates_percentage /\ d.duplicates_percentage <= 1000
    /\ d.files_this_month <= d.total_files
    /\ d.co2_saved_this_month <= d.total_co2_saved_g
    /\ (\A k \in 1..Len(rows) : rows[k].duplicate_of = NULL)
          => d.total_co2_saved_g = 0 /\ d.total_kwh_saved = 0
    /\ rows = <<>> => /\ \A field \in DOMAIN d : d[field] = 0
                      /\ Cardinality(DOMAIN d) = 10
                      /\ tasks[t].locals[1].divisions = 0

\* C22 as stated: for every state of the store, the summary of a user has
\* 0 <= duplicates_count <= total_files, 0 <= duplicates_percentage <= 100,
\* files_this_month <= total_files, total_co2_saved_g and total_kwh_saved
\* equal to the sums of the estimates over the user's files with duplicate_of
\* set, co2_saved_this_month <= total_co2_saved_g, and ten zero fields and no
\* division for a user without files.
C22_SavedTotalsAreTheSums ==
    \A t \in Tasks :
        (Summarised(t) /\ Snapshot(t))
          => LET d == tasks[t].response[1].data[1]
                 rows == SummaryFiles(t)
                 duplicates == SelectSeq(rows, LAMBDA f : f.duplicate_of # NULL)
             IN  /\ SummaryBounds(t, d, rows)
                 /\ Exactly(d.total_co2_saved_g, 100, SumFloat(duplicates, "co2_g_estimate"))
                 /\ Exactly(d.total_kwh_saved, 10000, SumFloat(duplicates, "kwh_estimate"))

\* C22, amended: as above, with total_co2_saved_g and total_kwh_saved equal
\* to those sums rounded to two and to four decimal places.
C22_SavedTotalsAreTheRoundedSums ==
    \A t \in Tasks :
        (Summarised(t) /\ Snapshot(t))
          => LET d == tasks[t].response[1].data[1]
                 rows == SummaryFiles(t)
                 duplicates == SelectSeq(rows, LAMBDA f : f.duplicate_of # NULL)
             IN  /\ SummaryBounds(t, d, rows)
                 /\ Nearest(d.total_co2_saved_g, 100, SumFloat(duplicates, "co2_g_estimate"))
                 /\ Nearest(d.total_kwh_saved, 10000, SumFloat(duplicates, "kwh_estimate"))

\* user 2 was served the summary of one file, a duplicate whose estimates
\* are not whole hundredths and which was inserted before the month began,
\* while nothing was being inserted
C22_Witness ==
    \E t \in Tasks :
        /\ Summarised(t) /\ Snapshot(t)
        /\ LET d == tasks[t].response[1].data[1]
           IN  /\ d.total_files = 1
               /\ d.duplicates_count = 1
               /\ d.duplicates_percentage = 1000
               /\ d.total_co2_saved_g = 430
               /\ d.total_kwh_saved = 107
               /\ d.files_this_month = 0
               /\ d.co2_saved_this_month = 0

====
